---- MODULE Spec2Model ----
(***************************************************************************)
(* Model of src/main.rs: the `verify` slash-command workflow               *)
(* (Handler::interaction_create), the bootstrap and the status loop        *)
(* (Handler::ready).  Every `.await` of the source is one step of the      *)
(* task that executes it; the code between two awaits runs atomically.     *)
(* A failed `.expect(..)` / `panic!` ends the task at pc "panicked".       *)
(***************************************************************************)
EXTENDS Integers, Sequences, FiniteSets, TLC

\* ---------------------------------------------------------------- bounds
MaxReqs == 2        \* command interactions delivered to the bot
MaxOnline == 10     \* largest online-player count a status answer carries

Reqs == 1..MaxReqs
Users == {"u1", "u2"}
Usernames == {"alice", "ghost"}           \* what a user may type
CommandNames == {"verify", "ping"}
OnlineCounts == {0, MaxOnline - 1, MaxOnline}

None == "None"                            \* Option::None / no value yet

\* ------------------------------------------------- identity service (HTTP)
\* The account the service knows under each spelling it accepts: the lookup
\* is case-insensitive and answers with the authoritative spelling.
CanonicalOf(username) ==
  CASE username = "alice" -> "Alice"
    [] username = "Alice" -> "Alice"
    [] OTHER -> None

\* The bodies the GET of line 26 can come back with; "NetErr" is the request
\* itself failing (the first `.ok()?`).
NetErr == [sent |-> FALSE, fields |-> {}, name |-> None]
SuccessBody(username) ==
  [sent |-> TRUE, fields |-> {"id", "name"}, name |-> CanonicalOf(username)]
FailureBody == [sent |-> TRUE, fields |-> {"path", "errorMessage"}, name |-> None]
MalformedBody == [sent |-> TRUE, fields |-> {"error"}, name |-> None]
HttpAnswers(username) ==
  {NetErr, MalformedBody}
    \cup (IF CanonicalOf(username) = None THEN {FailureBody} ELSE {SuccessBody(username)})

\* serde's untagged enum: the first variant all of whose fields are present.
ParseOrFailure(body) ==
  IF {"id", "name"} \subseteq body.fields
    THEN [variant |-> "Success", name |-> body.name]
    ELSE [variant |-> "Failure", name |-> None]
ParseMojangResponse(body) ==
  IF {"id", "name"} \subseteq body.fields
    THEN [variant |-> "Success", name |-> body.name]
    ELSE IF {"path", "errorMessage"} \subseteq body.fields
      THEN [variant |-> "Failure", name |-> None]
      ELSE [variant |-> None, name |-> None]

\* `None` when the request or the parse failed (the two `.ok()`).
get_mojang_profile(answer) ==
  IF ~answer.sent THEN [variant |-> None, name |-> None] ELSE ParseMojangResponse(answer)

\* ------------------------------------------------------------ reply texts
\* A formatted string is the sequence of its pieces.
NoGuildMsg == <<"Commands only work in a specific server">>
AlreadyVerifiedMsg ==
  <<"You have already verified a username, please contact an admin if you have verified the wrong username or need to change it.">>
ConnectFailedMsg ==
  <<"Could not connect to the minecraft server. Probably because it is offline right now. Try again later">>
CommandFailedMsg ==
  <<"Something went wrong... The server is probably offline right now. Try again when the server is online">>
FetchFailedMsg == <<"Couldn't fetch the profile from the Mojang API. Please try again.">>
NotACommandMsg == <<"Not a command">>
SuccessMsg(name) == <<"'", name, "' was successfully added to the whitelist!">>
NotFoundMsg(username) ==
  <<"There isn't a Mojang user with '", username, "' username. Please try again.">>
WhitelistAdd(name) == <<"whitelist add ", name>>

\* ----------------------------------------------------------- status label
\* `{}` of an unsigned integer: its decimal digits, most significant first.
Digit == <<"0", "1", "2", "3", "4", "5", "6", "7", "8", "9">>
RECURSIVE DecStrReversed(_)
DecStrReversed(n) ==
  IF n < 10 THEN <<Digit[n + 1]>> ELSE <<Digit[(n % 10) + 1]>> \o DecStrReversed(n \div 10)
RECURSIVE DecStr(_)
DecStr(n) ==
  IF n < 10 THEN <<Digit[n + 1]>> ELSE DecStr(n \div 10) \o <<Digit[(n % 10) + 1]>>

\* The labels of lines 288 and 292 (the emoji around the text are left out).
LabelPrefix == "Players online: "
OfflineLabel == <<"Server offline">>
OnlineLabel(online) == <<LabelPrefix>> \o DecStr(online)

\* A status answer is Err or Ok with status.players.online.
StatusErr == [ok |-> FALSE, online |-> 0]
StatusOk(n) == [ok |-> TRUE, online |-> n]
StatusAnswers == {StatusErr} \cup {StatusOk(n) : n \in OnlineCounts}
NewChannelName(status) ==
  IF status.ok THEN OnlineLabel(status.online) ELSE OfflineLabel

\* ------------------------------------------------------------------ state
VARIABLES
  \* the chat platform, the game server and the configuration
  cfg,                \* which of the two configured channels exist in the guild
  roles,              \* how many roles named "Verified" the guild has
  verified,           \* the users holding the Verified role
  verifyMsgs,         \* messages in the verification channel
  commandRegistered,  \* the guild command `verify` is registered
  displayed,          \* the status channel's name on the platform
  whitelist,          \* the game server's allow-list
  received,           \* requests the identity service and the console have received
  \* one task per delivered command interaction (interaction_create)
  pc,                 \* position of the task, "idle" before delivery
  inter,              \* the interaction: command name, user, option, guild
  local,              \* the task's locals: is_verified, profile, name, content
  effects,            \* what the task has asked of its collaborators so far
  \* the task running Handler::ready
  rpc,                \* position of the task
  status_channel,     \* name field of the task's own GuildChannel value
  new_channel_name,   \* the label computed in the current iteration
  ticks               \* the last two iterations: status answer, rename issued

vars ==
  <<cfg, roles, verified, verifyMsgs, commandRegistered, displayed, whitelist,
    received, pc, inter, local, effects, rpc, status_channel, new_channel_name, ticks>>
platformVars == <<cfg, roles, verifyMsgs, commandRegistered, displayed>>
verifyVars == <<verified, whitelist, received, pc, inter, local, effects>>
readyVars == <<rpc, status_channel, new_channel_name, ticks>>

InitialName == <<"status">>
NoInteraction == [command |-> None, user |-> None, username |-> None, in_guild |-> FALSE]
NoLocal == [is_verified |-> FALSE, profile |-> "unset", name |-> None, content |-> <<>>]
\* What a task has asked of its collaborators and what they answered: the
\* membership reads (role_held: the user held the role when the read was
\* answered), the identity lookups (answer: the last answer), the console
\* connects and authentications (opened, authed: the ones that succeeded;
\* grant: "ok", or the step the grant failed at),
\* the console commands sent and answered, the role writes (role_set: the
\* write succeeded) and the replies sent.
NoAnswer == [sent |-> FALSE, fields |-> {"unasked"}, name |-> None]
NoEffects ==
  [role_reads |-> 0, role_held |-> FALSE, lookups |-> 0, answer |-> NoAnswer,
   connects |-> 0, opened |-> 0, auths |-> 0, authed |-> 0, commands |-> <<>>,
   responses |-> 0, grant |-> None,
   role_writes |-> 0, role_set |-> FALSE, replies |-> <<>>]

Init ==
  /\ cfg \in [verify : BOOLEAN, status : BOOLEAN]
  /\ roles \in {0, 1}
  /\ verified = {}
  /\ verifyMsgs \in {0, 1}
  /\ commandRegistered = FALSE
  /\ displayed = InitialName
  /\ whitelist = {}
  /\ received = [lookups |-> 0, connects |-> 0, commands |-> 0]
  /\ pc = [r \in Reqs |-> "idle"]
  /\ inter = [r \in Reqs |-> NoInteraction]
  /\ local = [r \in Reqs |-> NoLocal]
  /\ effects = [r \in Reqs |-> NoEffects]
  /\ rpc = "settle"
  /\ status_channel = <<>>
  /\ new_channel_name = <<>>
  /\ ticks = <<>>

\* ------------------------------------------ Handler::interaction_create
\* The task of request r goes to `to` with reply text `content` (when it has one).
Goto(r, to) == pc' = [pc EXCEPT ![r] = to]
Content(r, content) == [local EXCEPT ![r].content = content]

\* guild.role_by_name("Verified") of lines 115 and 215.
RoleByNameNever == FALSE
RoleByName == roles > 0

\* Lines 93-117: the interaction is delivered; everything up to the first await.
Interaction(r, command, user, username, in_guild) ==
  /\ pc[r] = "idle"
  /\ IF r = 1 THEN TRUE ELSE pc[r - 1] # "idle"   \* requests are numbered as delivered
  /\ commandRegistered
  /\ inter' = [inter EXCEPT ![r] =
       [command |-> command, user |-> user, username |-> username, in_guild |-> in_guild]]
  /\ IF command # "verify"
       THEN /\ local' = Content(r, NotACommandMsg)
            /\ Goto(r, "respond")
       ELSE IF ~in_guild
         THEN /\ local' = Content(r, NoGuildMsg)
              /\ Goto(r, "respond")
         ELSE IF ~RoleByName
           THEN /\ Goto(r, "panicked")
                /\ UNCHANGED local
           ELSE /\ Goto(r, "has_role")
                /\ UNCHANGED local
  /\ UNCHANGED <<verified, whitelist, received, effects>>
  /\ UNCHANGED <<platformVars, readyVars>>

\* Lines 119-127: the membership check answers (or fails: expect).
IsVerifiedNever(user) == FALSE
IsVerifiedOrInFlight(user) ==
  \/ user \in verified
  \/ \E r \in Reqs :
       /\ inter[r].user = user
       /\ pc[r] \in {"get_profile", "rcon_connect", "rcon_auth", "run_command", "add_role"}
IsVerified(user) == user \in verified

HasRole(r, ok) ==
  /\ pc[r] = "has_role"
  /\ effects' = [effects EXCEPT ![r].role_reads = @ + 1,
                                ![r].role_held = ok /\ inter[r].user \in verified]
  /\ IF ~ok
       THEN /\ Goto(r, "panicked")
            /\ UNCHANGED local
       ELSE IF IsVerified(inter[r].user)
         THEN /\ local' = [local EXCEPT ![r].is_verified = TRUE,
                                        ![r].content = AlreadyVerifiedMsg]
              /\ Goto(r, "respond")
         ELSE /\ local' = [local EXCEPT ![r].is_verified = FALSE]
              /\ Goto(r, "get_profile")
  /\ UNCHANGED <<verified, whitelist, received, inter>>
  /\ UNCHANGED <<platformVars, readyVars>>

\* Lines 128-129 and 162-169: the identity lookup answers.
GetProfile(r, answer) ==
  /\ pc[r] = "get_profile"
  /\ effects' = [effects EXCEPT ![r].lookups = @ + 1, ![r].answer = answer]
  /\ LET profile == get_mojang_profile(answer) IN
       CASE profile.variant = "Success" ->
              /\ local' = [local EXCEPT ![r].profile = "Success", ![r].name = profile.name]
              /\ Goto(r, "rcon_connect")
         [] profile.variant = "Failure" ->
              /\ local' = [local EXCEPT ![r].profile = "Failure",
                                        ![r].content = NotFoundMsg(inter[r].username)]
              /\ Goto(r, "respond")
         [] OTHER ->
              /\ local' = [local EXCEPT ![r].profile = None, ![r].content = FetchFailedMsg]
              /\ Goto(r, "respond")
  /\ received' = [received EXCEPT !.lookups = @ + 1]
  /\ UNCHANGED <<verified, whitelist, inter>>
  /\ UNCHANGED <<platformVars, readyVars>>

\* Lines 44-45 and 130-135: RconClient::new answers.
RconConnect(r, ok) ==
  /\ pc[r] = "rcon_connect"
  /\ effects' = [effects EXCEPT ![r].connects = @ + 1,
                                ![r].opened = IF ok THEN @ + 1 ELSE @,
                                ![r].grant = IF ok THEN @ ELSE "connect"]
  /\ received' = [received EXCEPT !.connects = @ + 1]
  /\ IF ok
       THEN /\ Goto(r, "rcon_auth")
            /\ UNCHANGED local
       ELSE /\ local' = Content(r, ConnectFailedMsg)
            /\ Goto(r, "respond")
  /\ UNCHANGED <<verified, whitelist, inter>>
  /\ UNCHANGED <<platformVars, readyVars>>

\* Line 47: the `?` after authenticate: only Ok goes on to line 49.
AuthenticatedAlways(ok) == TRUE
Authenticated(ok) == ok

\* Lines 47-49 and 130-135: authenticate answers.
RconAuth(r, ok) ==
  /\ pc[r] = "rcon_auth"
  /\ effects' = [effects EXCEPT ![r].auths = @ + 1,
                                ![r].authed = IF ok THEN @ + 1 ELSE @,
                                ![r].grant = IF ok THEN @ ELSE "auth"]
  /\ IF Authenticated(ok)
       THEN /\ Goto(r, "run_command")
            /\ UNCHANGED local
       ELSE /\ local' = Content(r, ConnectFailedMsg)
            /\ Goto(r, "respond")
  /\ UNCHANGED <<verified, whitelist, received, inter>>
  /\ UNCHANGED <<platformVars, readyVars>>

\* Lines 137-142 and 155-157: the command is sent and its answer (or error) is in.
CommandTextTyped(r) == WhitelistAdd(inter[r].username)
CommandText(r) == WhitelistAdd(local[r].name)

\* Lines 140-143: `.ok()` and the match on Some(_): any answer counts.
HasResponseAlways(ok) == TRUE
HasResponse(ok) == ok

RunCommand(r, ok) ==
  /\ pc[r] = "run_command"
  /\ effects' = [effects EXCEPT ![r].commands = Append(@, CommandText(r)),
                                ![r].responses = IF ok THEN @ + 1 ELSE @,
                                ![r].grant = IF ok THEN "ok" ELSE "command"]
  /\ whitelist' = IF ok THEN whitelist \cup {local[r].name} ELSE whitelist
  /\ received' = [received EXCEPT !.commands = @ + 1]
  /\ IF HasResponse(ok)
       THEN /\ Goto(r, "add_role")
            /\ UNCHANGED local
       ELSE /\ local' = Content(r, CommandFailedMsg)
            /\ Goto(r, "respond")
  /\ UNCHANGED <<verified, inter>>
  /\ UNCHANGED <<platformVars, readyVars>>

\* Lines 143-154: the role write answers (or fails: expect).
GrantedContent(r) == SuccessMsg(local[r].name)

\* Lines 144-150: member.add_role succeeded.
WithRoleDropped(user) == verified
WithRole(user) == verified \cup {user}

AddRole(r, ok) ==
  /\ pc[r] = "add_role"
  /\ effects' = [effects EXCEPT ![r].role_writes = @ + 1, ![r].role_set = ok]
  /\ IF ok
       THEN /\ verified' = WithRole(inter[r].user)
            /\ local' = Content(r, GrantedContent(r))
            /\ Goto(r, "respond")
       ELSE /\ Goto(r, "panicked")
            /\ UNCHANGED <<verified, local>>
  /\ UNCHANGED <<whitelist, received, inter>>
  /\ UNCHANGED <<platformVars, readyVars>>

\* Lines 178-188: the one create_response of the handler (expect on failure).
Respond(r, ok) ==
  /\ pc[r] = "respond"
  /\ effects' = [effects EXCEPT ![r].replies = Append(@, local[r].content)]
  /\ Goto(r, IF ok THEN "done" ELSE "panicked")
  /\ UNCHANGED <<verified, whitelist, received, inter, local>>
  /\ UNCHANGED <<platformVars, readyVars>>

\* ------------------------------------------------------- Handler::ready
\* Lines 254-258: the status channel is taken from the guild value cloned at
\* line 199; the task then awaits create_command.
StatusChannelStep ==
  rpc' = IF cfg.status THEN "create_command" ELSE "panicked"

\* Lines 197-215: the settling sleep is over; the guild holding the verify
\* channel is cloned from the cache and searched for the Verified role.
Settle ==
  /\ rpc = "settle"
  /\ IF ~cfg.verify
       THEN /\ rpc' = "panicked"
            /\ UNCHANGED status_channel
       ELSE /\ status_channel' = displayed
            /\ rpc' = IF RoleByName THEN "messages" ELSE "create_role"
  /\ UNCHANGED <<new_channel_name, ticks>>
  /\ UNCHANGED <<platformVars, verifyVars>>

\* Lines 216-227.
CreateRole(ok) ==
  /\ rpc = "create_role"
  /\ IF ok
       THEN /\ roles' = roles + 1
            /\ rpc' = "messages"
       ELSE /\ rpc' = "panicked"
            /\ UNCHANGED roles
  /\ UNCHANGED <<status_channel, new_channel_name, ticks>>
  /\ UNCHANGED <<cfg, verifyMsgs, commandRegistered, displayed, verifyVars>>

\* Lines 230-235: the history read (limit 1) answers.
GetMessages(ok) ==
  /\ rpc = "messages"
  /\ IF ~ok
       THEN rpc' = "panicked"
       ELSE IF verifyMsgs = 0
         THEN rpc' = "send_message"
         ELSE StatusChannelStep
  /\ UNCHANGED <<status_channel, new_channel_name, ticks>>
  /\ UNCHANGED <<platformVars, verifyVars>>

\* Lines 236-252.
SendMessage(ok) ==
  /\ rpc = "send_message"
  /\ IF ok
       THEN /\ verifyMsgs' = verifyMsgs + 1
            /\ StatusChannelStep
       ELSE /\ rpc' = "panicked"
            /\ UNCHANGED verifyMsgs
  /\ UNCHANGED <<status_channel, new_channel_name, ticks>>
  /\ UNCHANGED <<cfg, roles, commandRegistered, displayed, verifyVars>>

\* Lines 261-279.
CreateCommand(ok) ==
  /\ rpc = "create_command"
  /\ IF ok
       THEN /\ commandRegistered' = TRUE
            /\ rpc' = "tick"
       ELSE /\ rpc' = "panicked"
            /\ UNCHANGED commandRegistered
  /\ UNCHANGED <<status_channel, new_channel_name, ticks>>
  /\ UNCHANGED <<cfg, roles, verifyMsgs, displayed, verifyVars>>

\* Line 282: the interval fires.
TickWhenNoWorkflow ==
  /\ rpc = "tick"
  /\ \A r \in Reqs : pc[r] \in {"idle", "done", "panicked", "killed"}
  /\ rpc' = "status"
  /\ UNCHANGED <<status_channel, new_channel_name, ticks>>
  /\ UNCHANGED <<platformVars, verifyVars>>
Tick ==
  /\ rpc = "tick"
  /\ rpc' = "status"
  /\ UNCHANGED <<status_channel, new_channel_name, ticks>>
  /\ UNCHANGED <<platformVars, verifyVars>>

\* The last two iterations, the newest last.
Remember(log, tick) ==
  IF Len(log) < 2 THEN Append(log, tick) ELSE <<log[2], tick>>

\* Line 299.
NeedsRenameAlways(old_channel_name, new_name) == TRUE
NeedsRename(old_channel_name, new_name) == old_channel_name # new_name

\* Lines 284-299 and 308-311: the status query answers; the label is computed
\* and compared with the name the task's channel value holds.
StatusOverRcon(status) ==
  /\ rpc = "status"
  /\ new_channel_name' = NewChannelName(status)
  /\ ticks' = Remember(ticks, [status |-> status, label |-> NewChannelName(status),
                               renamed |-> FALSE])
  /\ rpc' = IF NeedsRename(status_channel, NewChannelName(status)) THEN "edit" ELSE "tick"
  /\ received' = [received EXCEPT !.connects = @ + 1, !.commands = @ + 1]
  /\ UNCHANGED status_channel
  /\ UNCHANGED <<platformVars, verified, whitelist, pc, inter, local, effects>>
Status(status) ==
  /\ rpc = "status"
  /\ new_channel_name' = NewChannelName(status)
  /\ ticks' = Remember(ticks, [status |-> status, label |-> NewChannelName(status),
                               renamed |-> FALSE])
  /\ rpc' = IF NeedsRename(status_channel, NewChannelName(status)) THEN "edit" ELSE "tick"
  /\ UNCHANGED status_channel
  /\ UNCHANGED <<platformVars, verifyVars>>

\* The name the task's channel value holds after a successful edit: the edit
\* replaces the value by the channel the platform answers with.
EditedName(name) == name

\* Lines 300-311: the rename request is sent and answers (or fails: expect).
Edit(ok) ==
  /\ rpc = "edit"
  /\ ticks' = [ticks EXCEPT ![Len(ticks)].renamed = TRUE]
  /\ IF ok
       THEN /\ displayed' = new_channel_name
            /\ status_channel' = EditedName(new_channel_name)
            /\ rpc' = "tick"
       ELSE /\ rpc' = "panicked"
            /\ UNCHANGED <<displayed, status_channel>>
  /\ UNCHANGED new_channel_name
  /\ UNCHANGED <<cfg, roles, verifyMsgs, commandRegistered, verifyVars>>

\* ------------------------------------------------------------ environment
\* Somebody else renames the status channel on the platform.
ChannelNames == {InitialName, OfflineLabel} \cup {OnlineLabel(n) : n \in OnlineCounts}

OutOfBandRename(name) ==
  /\ name # displayed
  /\ displayed' = name
  /\ UNCHANGED <<cfg, roles, verifyMsgs, commandRegistered, verifyVars, readyVars>>

\* Lines 316-335: the process is stopped and started again.  Its tasks are
\* gone with it; what the platform and the game server hold stays.
Restart ==
  /\ rpc' = "settle"
  /\ status_channel' = <<>>
  /\ new_channel_name' = <<>>
  /\ ticks' = <<>>
  /\ pc' = [r \in Reqs |->
             IF pc[r] \in {"idle", "done", "panicked"} THEN pc[r] ELSE "killed"]
  /\ UNCHANGED <<platformVars, verified, whitelist, received, inter, local, effects>>

\* --------------------------------------------------------- specifications
NextVerify ==
  \E r \in Reqs :
    \/ \E user \in Users, username \in Usernames, in_guild \in BOOLEAN :
         Interaction(r, "verify", user, username, in_guild)
    \/ \E command \in CommandNames \ {"verify"}, user \in Users :
         Interaction(r, command, user, None, TRUE)
    \/ \E ok \in BOOLEAN : HasRole(r, ok)
    \/ \E answer \in HttpAnswers(inter[r].username) : GetProfile(r, answer)
    \/ \E ok \in BOOLEAN : RconConnect(r, ok)
    \/ \E ok \in BOOLEAN : RconAuth(r, ok)
    \/ \E ok \in BOOLEAN : RunCommand(r, ok)
    \/ \E ok \in BOOLEAN : AddRole(r, ok)
    \/ \E ok \in BOOLEAN : Respond(r, ok)

NextBootstrap ==
  \/ Settle
  \/ \E ok \in BOOLEAN : CreateRole(ok)
  \/ \E ok \in BOOLEAN : GetMessages(ok)
  \/ \E ok \in BOOLEAN : SendMessage(ok)
  \/ \E ok \in BOOLEAN : CreateCommand(ok)

NextLoop ==
  \/ Tick
  \/ \E status \in StatusAnswers : Status(status)
  \/ \E ok \in BOOLEAN : Edit(ok)
  \/ \E name \in ChannelNames : OutOfBandRename(name)

Next == NextBootstrap \/ NextVerify \/ NextLoop

Spec == Init /\ [][Next]_vars

\* The two flows on their own: the bootstrap with the verify workflow, and the
\* bootstrap with the status loop.
SpecVerify == Init /\ [][NextBootstrap \/ NextVerify]_vars
SpecLoop == Init /\ [][NextBootstrap \/ NextLoop]_vars

\* The process run any number of times, without anybody else renaming the
\* status channel: with the status loop, and with the verify workflow.
NextTicks ==
  \/ Tick
  \/ \E status \in StatusAnswers : Status(status)
  \/ \E ok \in BOOLEAN : Edit(ok)
SpecRuns == Init /\ [][NextBootstrap \/ NextTicks \/ Restart]_vars
SpecRunsVerify == Init /\ [][NextBootstrap \/ NextVerify \/ Restart]_vars

\* A delivered interaction's task is polled until it ends: every call it
\* awaits completes or fails.
Step(r) ==
  \/ \E ok \in BOOLEAN : HasRole(r, ok)
  \/ \E answer \in HttpAnswers(inter[r].username) : GetProfile(r, answer)
  \/ \E ok \in BOOLEAN : RconConnect(r, ok)
  \/ \E ok \in BOOLEAN : RconAuth(r, ok)
  \/ \E ok \in BOOLEAN : RunCommand(r, ok)
  \/ \E ok \in BOOLEAN : AddRole(r, ok)
  \/ \E ok \in BOOLEAN : Respond(r, ok)
FairVerify == SpecVerify /\ \A r \in Reqs : WF_vars(Step(r))

\* Both handlers of one run together: the bootstrap, the status loop and the
\* interaction tasks, each a task of its own on the runtime.
SpecJoint == Init /\ [][NextBootstrap \/ NextTicks \/ NextVerify]_vars

\* The same with fewer inputs: verify commands from the guild naming one
\* player, and a game server that is either down or empty.
JointStatuses == {StatusErr, StatusOk(0)}
LoopStep ==
  \/ Tick
  \/ \E status \in JointStatuses : Status(status)
  \/ \E ok \in BOOLEAN : Edit(ok)
NextJoint ==
  \/ NextBootstrap
  \/ LoopStep
  \/ \E r \in Reqs :
       \/ \E user \in Users : Interaction(r, "verify", user, "alice", TRUE)
       \/ Step(r)
\* Every task is polled for as long as it can go on: the interval fires and
\* every awaited call completes or fails.
FairJoint ==
  /\ Init /\ [][NextJoint]_vars
  /\ \A r \in Reqs : WF_vars(Step(r))
  /\ WF_vars(LoopStep)

\* ================================================================= claims
Terminal(r) == pc[r] \in {"done", "panicked"}
IsVerify(r) == inter[r].command = "verify"
SameUser(r1, r2) == r1 # r2 /\ IsVerify(r1) /\ IsVerify(r2) /\ inter[r1].user = inter[r2].user
Commanded(r) == effects[r].commands # <<>>
\* What the task of r is about to reply with, or has replied with.
RepliesWith(r, content) ==
  \/ pc[r] = "respond" /\ local[r].content = content /\ effects[r].replies = <<>>
  \/ Terminal(r) /\ effects[r].replies = <<content>>

\* C1 as stated: among the requests of one user, at most one has issued a
\* `whitelist add` command.
C1_AtMostOneCommandPerUser ==
  \A u \in Users :
    Cardinality({r \in Reqs : IsVerify(r) /\ inter[r].user = u /\ Commanded(r)}) <= 1

\* C1 (amended): a request issues a `whitelist add` command only if its user
\* did not hold the Verified role when its membership check was answered, and
\* it issues at most one; a request whose check is answered once the user
\* holds the role issues none.
C1_CommandOnlyAfterUnverifiedCheck ==
  \A r \in Reqs :
    /\ Len(effects[r].commands) <= 1
    /\ Commanded(r) => effects[r].role_reads = 1 /\ ~effects[r].role_held
    /\ effects[r].role_held => ~Commanded(r)

\* One request of a user was granted, a second one of the same user was
\* checked afterwards and ended without a command.
C1_Witness ==
  \E r1, r2 \in Reqs :
    /\ SameUser(r1, r2)
    /\ Commanded(r1) /\ effects[r1].role_set
    /\ effects[r2].role_held /\ pc[r2] = "done" /\ ~Commanded(r2)

\* C2: a request whose membership check found the user holding the Verified
\* role replies with the fixed "already verified" text and has made no identity
\* lookup, opened no console session, sent no console command and written no role.
C2_AlreadyVerifiedNoEffects ==
  \A r \in Reqs :
    effects[r].role_held =>
      /\ RepliesWith(r, AlreadyVerifiedMsg)
      /\ effects[r].lookups = 0
      /\ effects[r].connects = 0 /\ effects[r].auths = 0
      /\ effects[r].commands = <<>>
      /\ effects[r].role_writes = 0

C2_Witness ==
  \E r \in Reqs :
    effects[r].role_held /\ pc[r] = "done" /\ effects[r].replies = <<AlreadyVerifiedMsg>>

TryAgainReplies == {ConnectFailedMsg, CommandFailedMsg}
GrantFailed(r) == effects[r].grant \in {"connect", "auth", "command"}

C4_GrantFailureLeavesUnverified ==
  \A r \in Reqs :
    GrantFailed(r) =>
      /\ \E content \in TryAgainReplies : RepliesWith(r, content)
      /\ effects[r].role_writes = 0
      /\ inter[r].user \in verified => \E r2 \in Reqs : SameUser(r, r2) /\ effects[r2].role_set

\* A grant failed at the command, and a later request of the same user was not
\* stopped at the membership check and was granted.
C4_Witness ==
  \E r1, r2 \in Reqs :
    /\ r1 < r2 /\ SameUser(r1, r2)
    /\ effects[r1].grant = "command" /\ pc[r1] = "done"
    /\ ~effects[r2].role_held /\ effects[r2].role_set /\ pc[r2] = "done"

\* C5: once the identity lookup has answered Found with canonical name N, the
\* allow-list command has been answered and the role write has succeeded, the
\* request eventually ends having sent exactly one reply, the success text
\* naming N, and its user holds the Verified role.
C5_GrantedEventually ==
  \A r \in Reqs :
    effects[r].role_set ~>
      /\ Terminal(r)
      /\ effects[r].replies = <<SuccessMsg(effects[r].answer.name)>>
      /\ inter[r].user \in verified

C5_Witness ==
  \E r \in Reqs :
    /\ effects[r].role_set /\ pc[r] = "done"
    /\ ~effects[r].role_held /\ effects[r].grant = "ok"
    /\ effects[r].replies = <<SuccessMsg("Alice")>>

\* C6: every console command a request sends is `whitelist add ` followed by
\* the name the identity service answered with, and so is the name in its
\* success reply; the typed username is never used when the two differ.
C6_CanonicalNameUsed ==
  \A r \in Reqs :
    LET canonical == effects[r].answer.name IN
      /\ \A i \in 1..Len(effects[r].commands) :
           /\ effects[r].commands[i] = <<"whitelist add ", canonical>>
           /\ canonical # inter[r].username =>
                effects[r].commands[i] # <<"whitelist add ", inter[r].username>>
      /\ effects[r].role_set => RepliesWith(r, SuccessMsg(canonical))
      /\ Commanded(r) => canonical \in whitelist \/ effects[r].grant = "command"

\* The typed username differs from the canonical name and the request was granted.
C6_Witness ==
  \E r \in Reqs :
    /\ inter[r].username = "alice"
    /\ effects[r].commands = <<WhitelistAdd("Alice")>>
    /\ effects[r].replies = <<SuccessMsg("Alice")>>

\* C7 as stated: a verify request never sends more than one reply, and one
\* that has ended has sent exactly one.
C7_ExactlyOneReply ==
  \A r \in Reqs :
    IsVerify(r) =>
      /\ Len(effects[r].replies) <= 1
      /\ Terminal(r) => Len(effects[r].replies) = 1

\* C8 as stated: a request whose allow-list command was answered and whose
\* role write failed has, once ended, sent the reply that reports the grant.
C8_ReplyAfterFailedRoleWrite ==
  \A r \in Reqs :
    (effects[r].role_writes = 1 /\ ~effects[r].role_set /\ Terminal(r)) =>
      effects[r].replies = <<SuccessMsg(effects[r].answer.name)>>

\* C9: a rename request is in flight only for a computed label that differs
\* from the name the task holds for the channel, and of two consecutive
\* iterations with the same status answer at most one has issued a rename.
C9_RenameOnlyOnChange ==
  /\ rpc = "edit" => new_channel_name # status_channel
  /\ Len(ticks) = 2 /\ ticks[1].status = ticks[2].status =>
       ~(ticks[1].renamed /\ ticks[2].renamed)

\* Two consecutive iterations saw the same status; the first one renamed the
\* channel, the second one is over and did not.
C9_Witness ==
  /\ Len(ticks) = 2 /\ ticks[1].status = ticks[2].status
  /\ ticks[1].renamed /\ ~ticks[2].renamed
  /\ rpc = "tick"

\* The number a sequence of decimal digits denotes.
DigitValue(d) == CHOOSE v \in 0..9 : Digit[v + 1] = d
RECURSIVE ReadDec(_)
ReadDec(ds) ==
  IF Len(ds) = 1 THEN DigitValue(ds[1])
  ELSE 10 * ReadDec(SubSeq(ds, 1, Len(ds) - 1)) + DigitValue(ds[Len(ds)])

\* C10: the label computed in an iteration is the offline sentinel exactly when
\* the status query failed; for an answer with online count N it is the online
\* text followed by the decimal digits of N, hence not the sentinel; and a
\* failed iteration followed by a successful one computed two different labels.
C10_LabelOfStatus ==
  /\ \A i \in 1..Len(ticks) :
       LET t == ticks[i] IN
         /\ (t.label = OfflineLabel) <=> ~t.status.ok
         /\ t.status.ok =>
              /\ Len(t.label) >= 2 /\ Head(t.label) = LabelPrefix
              /\ \A k \in 2..Len(t.label) : \E v \in 0..9 : Digit[v + 1] = t.label[k]
              /\ ReadDec(Tail(t.label)) = t.status.online
  /\ ticks # <<>> => new_channel_name = ticks[Len(ticks)].label
  /\ (Len(ticks) = 2 /\ ~ticks[1].status.ok /\ ticks[2].status.ok) =>
       ticks[1].label # ticks[2].label

\* A failed query was followed by one answering a two-digit count.
C10_Witness ==
  /\ Len(ticks) = 2 /\ ~ticks[1].status.ok
  /\ ticks[2].status.ok /\ ticks[2].status.online >= 10
  /\ new_channel_name = <<LabelPrefix, "1", "0">>

\* C11: a bootstrap never creates a Verified role in a guild that has one and
\* never sends the instructional message to a verification channel that holds
\* a message; however often the process is run, the guild never has more than
\* one Verified role nor the channel more than one message, and once a
\* bootstrap is through there is exactly one of each.
BootstrapDone == rpc \in {"tick", "status", "edit"} \/ (rpc = "panicked" /\ ticks # <<>>)

C11_BootstrapIdempotent ==
  /\ [](roles <= 1 /\ verifyMsgs <= 1)
  /\ [](BootstrapDone => roles = 1 /\ verifyMsgs = 1)
  /\ [][(roles > 0 => roles' = roles) /\ (verifyMsgs > 0 => verifyMsgs' = verifyMsgs)]_vars

\* A later run of the process (the channel still carries a label an earlier
\* run gave it) is through its bootstrap.
C11_Witness ==
  /\ rpc = "tick" /\ ticks = <<>>
  /\ displayed # InitialName
  /\ roles = 1 /\ verifyMsgs = 1

\* C12 as stated: an iteration that issued a rename leaves the status loop
\* running, whatever the rename answered.
C12_LoopSurvivesFailedRename ==
  (ticks # <<>> /\ ticks[Len(ticks)].renamed) => rpc \in {"tick", "status"}

\* C13 as stated: an iteration whose status query failed computes the offline
\* label and leaves the status loop running.
C13_LoopSurvivesFailedQuery ==
  (ticks # <<>> /\ ~ticks[Len(ticks)].status.ok) =>
    /\ new_channel_name = OfflineLabel
    /\ rpc \in {"tick", "status", "edit"}

\* C14 as stated: an iteration whose computed label differs from the name the
\* status channel has on the platform at that moment issues a rename.
C14_ComparesWithDisplayedName ==
  [][(rpc = "status" /\ rpc' # "status" /\ displayed # new_channel_name') =>
       rpc' = "edit"]_vars

\* C15: the membership check looks at the role alone: a request whose check
\* was answered while its user did not hold the role is never turned away as
\* already verified, whatever other requests of that user are in flight; so two
\* requests of one user can both have their `whitelist add` answered before
\* either writes the role.
C15_CheckLooksAtRoleOnly ==
  \A r \in Reqs :
    (effects[r].role_reads = 1 /\ ~effects[r].role_held) =>
      /\ ~local[r].is_verified
      /\ local[r].content # AlreadyVerifiedMsg
      /\ AlreadyVerifiedMsg \notin {effects[r].replies[i] : i \in 1..Len(effects[r].replies)}

\* Two requests of one user, both with an answered command, both about to
\* write the role.
C15_Witness ==
  \E r1, r2 \in Reqs :
    /\ SameUser(r1, r2)
    /\ pc[r1] = "add_role" /\ pc[r2] = "add_role"
    /\ effects[r1].responses = 1 /\ effects[r2].responses = 1
    /\ inter[r1].user \notin verified

\* C16: a request connects to the console at most once, authenticates at most
\* once and sends at most one command; a command is sent only after the
\* connect and then the authentication of that request succeeded; a request
\* that set the role sent exactly one command and got its answer.
C16_OneSessionOneCommand ==
  \A r \in Reqs :
    /\ effects[r].connects <= 1 /\ effects[r].auths <= 1
    /\ Len(effects[r].commands) <= 1
    /\ effects[r].auths = 1 => effects[r].opened = 1
    /\ Commanded(r) => effects[r].opened = 1 /\ effects[r].authed = 1
    /\ Commanded(r) => Head(effects[r].commands)[1] = "whitelist add "
    /\ effects[r].role_set => Len(effects[r].commands) = 1 /\ effects[r].responses = 1

\* One request was refused at the authentication and sent nothing; another
\* was granted.
C16_Witness ==
  \E r1, r2 \in Reqs :
    /\ effects[r1].grant = "auth" /\ pc[r1] = "done" /\ ~Commanded(r1)
    /\ effects[r2].role_set /\ pc[r2] = "done" /\ Len(effects[r2].commands) = 1

\* C19: a request writes the role only after its identity lookup answered
\* Found and its `whitelist add` of that name was answered; every user holding
\* the role got it from such a request.
C19_RoleOnlyAfterAnsweredCommand ==
  /\ \A r \in Reqs :
       effects[r].role_writes >= 1 =>
         /\ effects[r].lookups = 1
         /\ effects[r].answer = SuccessBody(inter[r].username)
         /\ effects[r].answer.name # None
         /\ effects[r].commands = <<WhitelistAdd(effects[r].answer.name)>>
         /\ effects[r].responses = 1 /\ effects[r].grant = "ok"
         /\ effects[r].answer.name \in whitelist
  /\ \A u \in verified :
       \E r \in Reqs : IsVerify(r) /\ inter[r].user = u /\ effects[r].role_set

\* The role has just been written and the reply is still to be sent.
C19_Witness ==
  \E r \in Reqs :
    /\ pc[r] = "respond" /\ effects[r].role_set
    /\ inter[r].user \in verified /\ effects[r].responses = 1

\* The ready task ended by a panic before its loop began.
BootstrapFailed == rpc = "panicked" /\ ticks = <<>>

\* C17 as stated: once a bootstrap step has failed, no verify request is
\* processed: no interaction task starts or takes a step for as long as the
\* process is the one whose bootstrap failed.
C17_BootstrapFailureHaltsProcess ==
  [][(BootstrapFailed /\ BootstrapFailed') => UNCHANGED <<pc, effects>>]_vars

\* The task of request r is suspended on a call or about to reply.
InFlight(r) == pc[r] \notin {"idle", "done", "panicked", "killed"}
LoopAlive == rpc \in {"tick", "status", "edit"}

\* C18: the interaction tasks and the status loop never wait for each other.
\* Whatever the loop and the other requests are doing, a request in flight can
\* take its next step and does reach a terminal state; whatever requests are
\* in flight, the loop can take its next step, the interval fires, the status
\* query is answered and a rename request is answered.
C18_FlowsRunConcurrently ==
  /\ [](\A r \in Reqs : InFlight(r) => ENABLED Step(r))
  /\ [](LoopAlive => ENABLED LoopStep)
  /\ \A r \in Reqs : InFlight(r) ~> Terminal(r)
  /\ (rpc = "tick") ~> (rpc = "status")
  /\ (rpc = "status") ~> (rpc \in {"tick", "edit"})
  /\ (rpc = "edit") ~> (rpc \in {"tick", "panicked"})

\* One user's request has run to its reply while another user's request is
\* suspended on the console and the loop is waiting for its second status
\* answer.
C18_Witness ==
  \E r1, r2 \in Reqs :
    /\ inter[r1].user # inter[r2].user
    /\ pc[r1] = "done" /\ effects[r1].role_set
    /\ pc[r2] = "rcon_auth"
    /\ rpc = "status" /\ Len(ticks) = 1

\* C20: a step of an interaction task leaves the displayed channel name and
\* the loop's state alone; a step of the status loop leaves alone who holds
\* the role, the whitelist, what the identity service and the console have
\* received, and every interaction task.
C20_DisjointEffects ==
  [][/\ pc' # pc => displayed' = displayed /\ UNCHANGED readyVars
     /\ (LoopAlive /\ readyVars' # readyVars) =>
          /\ verified' = verified /\ whitelist' = whitelist
          /\ received' = received
          /\ UNCHANGED <<pc, inter, local, effects>>]_vars

\* The loop has renamed the channel and a request has used the identity
\* service and the console and granted the role.
C20_Witness ==
  /\ Len(ticks) = 2 /\ displayed # InitialName /\ LoopAlive
  /\ received.lookups >= 1 /\ received.connects >= 1 /\ received.commands >= 1
  /\ \E r \in Reqs : effects[r].role_set /\ inter[r].user \in verified

====
